---- MODULE Spec2Model ----
(***************************************************************************)
(* The user repository of pluto: SqlAlchemyUserRepository over the table   *)
(* `users`, used through SQLAlchemy sessions                               *)
(* (sessionmaker(autoflush=False, autocommit=False,                        *)
(* expire_on_commit=False)).                                               *)
(*                                                                         *)
(* rows   the committed content of the table, indexed by primary key       *)
(* imap   per session: the instances of its identity map that carry        *)
(*        attribute assignments not yet flushed (an operation that raised  *)
(*        between the assignment and _persist leaves them there)           *)
(* pc/arg per session: the position inside create (between the existence   *)
(*        pre-check and the commit) or delete_by_id (between the lookup    *)
(*        and the commit); every other operation is one step               *)
(* last   the outcome of the call that completed most recently             *)
(* req    per API request: where it is (no session yet, session open,      *)
(*        handler returned or raised), its session and its response        *)
(*                                                                         *)
(* Instances of the identity map without unflushed assignments are read    *)
(* from the table when they are used: the map references them weakly and   *)
(* the repository keeps none, every mutating operation refreshes what it   *)
(* returns, and a rollback expires the whole map.                          *)
(***************************************************************************)
EXTENDS Integers, Sequences, FiniteSets, TLC

VARIABLES rows, imap, pc, arg, last, req

vars == <<rows, imap, pc, arg, last, req>>

\* ------------------------------------------------------------------ bounds
MaxId == 2
MaxBatch == 2
MaxDirty == 1

NumSessions == 2

Sessions == 1..NumSessions
Ids == 1..MaxId

Usernames == {"alice", "bob"}
Emails == {"a@x", "b@x"}

\* ------------------------------------------------------------ domain types
\* The values of the members of UserStatus (domain/enums/user_enums.py), as
\* presentation/api/models.py names them.
UserStatus == {"active", "inactive", "pending", "banned"}

\* A status argument is a UserStatus member (enum = TRUE) or a plain string.
ACTIVE == [enum |-> TRUE, v |-> "active"]
INACTIVE == [enum |-> TRUE, v |-> "inactive"]
StrInactive == [enum |-> FALSE, v |-> "inactive"]
StrBogus == [enum |-> FALSE, v |-> "bogus"]
StatusArgs == {ACTIVE, StrInactive, StrBogus}

\* Optional[int]: 0 stands for None.
None == 0
OptIds == {None} \cup Ids

\* User(user_id, username, email, status)
Users == [user_id : OptIds, user_name : Usernames, user_email : Emails,
          user_status : {ACTIVE, INACTIVE, StrBogus}]

\* A table row / a UserModel instance; present = FALSE is "no row".
NoRow == [present |-> FALSE, username |-> "", email |-> "", status |-> ""]
Row(u, e, st) == [present |-> TRUE, username |-> u, email |-> e, status |-> st]

\* An instance of the identity map: its attributes, and the values they were
\* loaded with (ou, oe, os), which decide what an UPDATE sets.
NoObj == [present |-> FALSE, username |-> "", email |-> "", status |-> "",
          ou |-> "", oe |-> "", os |-> ""]
Load(row) == [present |-> row.present, username |-> row.username, email |-> row.email,
              status |-> row.status, ou |-> row.username, oe |-> row.email, os |-> row.status]
Dirty(o) == o.present /\ (o.username # o.ou \/ o.email # o.oe \/ o.status # o.os)

\* The user a call returns.
NoUser == [user_id |-> None, user_name |-> "", user_email |-> "", user_status |-> ""]

NoModel == [id |-> None, username |-> "", email |-> "", status |-> ""]

\* ------------------------------------------------------- the storage engine
\* The table without the unique constraint on email.
UniqueOK_no_email(r) ==
    \A i, j \in Ids :
        (i # j /\ r[i].present /\ r[j].present) => r[i].username # r[j].username

\* The table without the unique constraint on username.
UniqueOK_no_username(r) ==
    \A i, j \in Ids :
        (i # j /\ r[i].present /\ r[j].present) => r[i].email # r[j].email

\* unique=True on username and on email (user_model.py, lines 16-17): no two
\* rows with the same username, no two with the same email.
UniqueOK(r) ==
    \A i, j \in Ids :
        (i # j /\ r[i].present /\ r[j].present)
            => (r[i].username # r[j].username /\ r[i].email # r[j].email)

MaxOf(S) == IF S = {} THEN 0 ELSE CHOOSE m \in S : \A x \in S : x <= m

\* INTEGER PRIMARY KEY of the default SQLite store: one more than the largest
\* key in the table.
NextId(r) == MaxOf({i \in Ids : r[i].present}) + 1

Outcome(e, r) == [err |-> e, rows |-> r]

\* A flush whose UPDATE statements leave the status column out.
RECURSIVE FlushUpdates_no_status(_, _, _, _)
FlushUpdates_no_status(im, r, i, del) ==
    IF i > MaxId THEN Outcome("", r)
    ELSE IF ~Dirty(im[i]) \/ i \in del THEN FlushUpdates_no_status(im, r, i + 1, del)
    ELSE IF ~r[i].present THEN Outcome("StaleDataError", r)
    ELSE LET o == im[i]
             r2 == [r EXCEPT ![i] =
                     [@ EXCEPT !.username = IF o.username # o.ou THEN o.username ELSE @,
                               !.email = IF o.email # o.oe THEN o.email ELSE @]]
         IN IF UniqueOK(r2) THEN FlushUpdates_no_status(im, r2, i + 1, del)
            ELSE Outcome("IntegrityError", r)

\* The UPDATE statements of a flush, one instance after the other in primary
\* key order, each setting the attributes that changed; an instance marked for
\* deletion gets none. An UPDATE that matches no row is a StaleDataError.
RECURSIVE FlushUpdates(_, _, _, _)
FlushUpdates(im, r, i, del) ==
    IF i > MaxId THEN Outcome("", r)
    ELSE IF ~Dirty(im[i]) \/ i \in del THEN FlushUpdates(im, r, i + 1, del)
    ELSE IF ~r[i].present THEN Outcome("StaleDataError", r)
    ELSE LET o == im[i]
             r2 == [r EXCEPT ![i] =
                     [@ EXCEPT !.username = IF o.username # o.ou THEN o.username ELSE @,
                               !.email = IF o.email # o.oe THEN o.email ELSE @,
                               !.status = IF o.status # o.os THEN o.status ELSE @]]
         IN IF UniqueOK(r2) THEN FlushUpdates(im, r2, i + 1, del)
            ELSE Outcome("IntegrityError", r)

\* The INSERT statements of a flush, in the order the instances were added.
\* "overflow" marks a key beyond the bounded table (the step is then not taken).
RECURSIVE FlushInserts(_, _, _)
FlushInserts(ms, r, k) ==
    IF k > Len(ms) THEN Outcome("", r)
    ELSE LET m == ms[k]
             id == IF m.id = None THEN NextId(r) ELSE m.id
         IN IF id > MaxId THEN Outcome("overflow", r)
            ELSE IF r[id].present THEN Outcome("IntegrityError", r)
            ELSE LET r2 == [r EXCEPT ![id] = Row(m.username, m.email, m.status)]
                 IN IF UniqueOK(r2) THEN FlushInserts(ms, r2, k + 1)
                    ELSE Outcome("IntegrityError", r)

\* A delete that marks the row inactive and keeps it.
FlushDeletes_soft(r, del) ==
    [i \in Ids |-> IF i \in del /\ r[i].present
                   THEN [r[i] EXCEPT !.status = "inactive"] ELSE r[i]]

\* The DELETE statements of a flush. A DELETE that matches no row is only
\* warned about by the mapper (confirm_deleted_rows without a version column).
FlushDeletes(r, del) == [i \in Ids |-> IF i \in del THEN NoRow ELSE r[i]]

\* The keys the inserts of ms are given, in order.
RECURSIVE InsertedIds(_, _, _)
InsertedIds(ms, r, k) ==
    IF k > Len(ms) THEN <<>>
    ELSE LET m == ms[k]
             id == IF m.id = None THEN NextId(r) ELSE m.id
         IN <<id>> \o InsertedIds(ms, [r EXCEPT ![id] = Row(m.username, m.email, m.status)], k + 1)

\* A commit whose failure keeps the statements flushed before it.
commit_no_rollback(im, r, ms, del) ==
    LET u == FlushUpdates(im, r, 1, del)
    IN IF u.err # "" THEN Outcome(u.err, u.rows)
       ELSE LET n == FlushInserts(ms, u.rows, 1)
            IN IF n.err # "" THEN Outcome(n.err, n.rows)
               ELSE Outcome("", FlushDeletes(n.rows, del))

\* session.commit(): flush everything the session holds, in one transaction.
commit(im, r, ms, del) ==
    LET u == FlushUpdates(im, r, 1, del)
    IN IF u.err # "" THEN Outcome(u.err, r)
       ELSE LET n == FlushInserts(ms, u.rows, 1)
            IN IF n.err # "" THEN Outcome(n.err, r)
               ELSE Outcome("", FlushDeletes(n.rows, del))

EmptyMap == [i \in Ids |-> NoObj]

\* ------------------------------------------------------------- conversions
\* UserStatus(value): the member with that value, or ValueError.
IsStatus(v) == v \in UserStatus

\* _ensure_status without the conversion through UserStatus(...).
_ensure_status_unchecked(status) == status.v

\* _ensure_status: a member as it is, a string through UserStatus(...).
\* "" is the ValueError.
_ensure_status(status) ==
    IF status.enum THEN status.v
    ELSE IF IsStatus(status.v) THEN status.v ELSE ""

\* from_domain that leaves the status to the column default.
from_domain_default_status(user) ==
    IF user.user_status.enum
    THEN [id |-> user.user_id, username |-> user.user_name,
          email |-> user.user_email, status |-> "active"]
    ELSE [NoModel EXCEPT !.id = -1]

\* from_domain that stores a status given as a string as it is.
from_domain_str_status(user) ==
    [id |-> user.user_id, username |-> user.user_name,
     email |-> user.user_email, status |-> user.user_status.v]

\* UserModel.from_domain: line 34 reads user.user_status.value before the
\* isinstance test, so a status that is no member raises AttributeError
\* (id = -1 stands for it).
from_domain(user) ==
    IF user.user_status.enum
    THEN [id |-> user.user_id, username |-> user.user_name,
          email |-> user.user_email, status |-> user.user_status.v]
    ELSE [NoModel EXCEPT !.id = -1]

\* UserModel.to_domain of the row stored under id.
to_domain(id, row) ==
    [user_id |-> id, user_name |-> row.username, user_email |-> row.email,
     user_status |-> IF IsStatus(row.status) THEN row.status ELSE "ValueError"]

\* --------------------------------------------------------- session helpers
\* session.get(UserModel, id): the instance of the identity map, else the row.
session_get(s, id) ==
    IF imap[s][id].present THEN imap[s][id] ELSE Load(rows[id])

\* What stays in the identity map when a call raises before _persist.
Keep(im) == [i \in Ids |-> IF Dirty(im[i]) THEN im[i] ELSE NoObj]

\* The instances with unflushed assignments, over all sessions.
DirtyCount(m) == Cardinality({p \in Sessions \X Ids : m[p[1]][p[2]].present})

\* --------------------------------------------------------- read operations
exists_by_username(username) == \E i \in Ids : rows[i].present /\ rows[i].username = username

exists_by_email(email) == \E i \in Ids : rows[i].present /\ rows[i].email = email

\* find_by_id in session s: NoUser is None.
find_by_id(s, id) ==
    LET o == session_get(s, id)
    IN IF o.present THEN to_domain(id, o) ELSE NoUser

\* ------------------------------------------------------------ call results
\* op: the operation; out: "user" (the refreshed instance, through to_domain),
\* "users", "None", "True", "False", or the class of the exception raised;
\* msg: which raise statement of create built a UserAlreadyExistsError.
\* id: the identifier the call was about (for create: the one assigned);
\* username, email: those of the user passed to create, or of the instance
\* delete_by_id deleted; count: the number a call returned (out is "count");
\* users: the users a read returned.
Result(op, out, id) ==
    [op |-> op, out |-> out, msg |-> "", id |-> id, username |-> "", email |-> "",
     count |-> 0, users |-> <<>>]

CreateResult(m, out, msg, id) ==
    [op |-> "create", out |-> out, msg |-> msg, id |-> id,
     username |-> m.username, email |-> m.email, count |-> 0, users |-> <<>>]

\* The API requests in flight, and a request that has no session.
Requests == {1, 2}

NoReq == [pc |-> "none", session |-> None, resp |-> ""]

Init ==
    /\ rows = [i \in Ids |-> NoRow]
    /\ imap = [s \in Sessions |-> EmptyMap]
    /\ pc = [s \in Sessions |-> "idle"]
    /\ arg = [s \in Sessions |-> NoModel]
    /\ last = Result("", "", None)
    /\ req = [r \in Requests |-> NoReq]

\* _persist of session s with the instances im, the added models ms and the
\* deleted keys del: commit, and on any exception rollback and re-raise. Either
\* way no instance of the session keeps an unflushed assignment.
_persist(s, im, ms, del) == commit(im, rows, ms, del)

\* ------------------------------------------------------------------ create
\* create, lines 51-64, for the model m: add, _persist, refresh; an
\* IntegrityError becomes UserAlreadyExistsError, anything else is rolled back
\* and re-raised.
CreateTail(s, m) ==
    LET c == _persist(s, imap[s], <<m>>, {})
        id == InsertedIds(<<m>>, rows, 1)[1]
    IN /\ c.err # "overflow"
       /\ rows' = c.rows
       /\ imap' = [imap EXCEPT ![s] = EmptyMap]
       /\ last' = IF c.err = ""
                  THEN CreateResult(m, "user", "", id)
                  ELSE IF c.err = "IntegrityError"
                  THEN CreateResult(m, "UserAlreadyExistsError", "integrity", None)
                  ELSE CreateResult(m, c.err, "", None)

Keys(user) == [username |-> user.user_name, email |-> user.user_email]

\* create, lines 44-47: the existence pre-check.
PreCheck(user) == exists_by_username(user.user_name) \/ exists_by_email(user.user_email)

\* create as one step.
create(s, user) ==
    /\ pc[s] = "idle"
    /\ IF PreCheck(user)
       THEN /\ last' = CreateResult(Keys(user), "UserAlreadyExistsError", "exists", None)
            /\ UNCHANGED <<rows, imap>>
       ELSE IF from_domain(user).id = -1
       THEN /\ last' = CreateResult(Keys(user), "AttributeError", "", None)
            /\ UNCHANGED <<rows, imap>>
       ELSE CreateTail(s, from_domain(user))
    /\ UNCHANGED <<pc, arg>>

\* create in two steps, for calls of two sessions that interleave: lines 44-49
\* (pre-check and from_domain), then lines 51-64.
create_check(s, user) ==
    /\ pc[s] = "idle"
    /\ IF PreCheck(user)
       THEN /\ last' = CreateResult(Keys(user), "UserAlreadyExistsError", "exists", None)
            /\ UNCHANGED <<pc, arg>>
       ELSE IF from_domain(user).id = -1
       THEN /\ last' = CreateResult(Keys(user), "AttributeError", "", None)
            /\ UNCHANGED <<pc, arg>>
       ELSE /\ pc' = [pc EXCEPT ![s] = "create"]
            /\ arg' = [arg EXCEPT ![s] = from_domain(user)]
            /\ UNCHANGED last
    /\ UNCHANGED <<rows, imap>>

create_commit(s) ==
    /\ pc[s] = "create"
    /\ CreateTail(s, arg[s])
    /\ pc' = [pc EXCEPT ![s] = "idle"]
    /\ arg' = [arg EXCEPT ![s] = NoModel]

\* bulk_create: from_domain of every user, add_all, _persist, refresh.
\* The users of a batch: new users, two of them with the same username and two
\* with the same email, and one whose status is a string.
BatchUsers ==
    {u \in Users :
        /\ u.user_id = None
        /\ \/ u.user_status = ACTIVE /\ ~(u.user_name = "bob" /\ u.user_email = "a@x")
           \/ u.user_status = StrBogus /\ u.user_name = "bob" /\ u.user_email = "b@x"}

Batches == UNION {[1..n -> BatchUsers] : n \in 0..MaxBatch}

bulk_create(s, users) ==
    /\ pc[s] = "idle"
    /\ IF \E k \in 1..Len(users) : from_domain(users[k]).id = -1
       THEN /\ last' = Result("bulk_create", "AttributeError", None)
            /\ UNCHANGED <<rows, imap>>
       ELSE LET ms == [k \in 1..Len(users) |-> from_domain(users[k])]
                c == _persist(s, imap[s], ms, {})
            IN /\ c.err # "overflow"
               /\ rows' = c.rows
               /\ imap' = [imap EXCEPT ![s] = EmptyMap]
               /\ last' = IF c.err = ""
                          THEN Result("bulk_create", "users", None)
                          ELSE IF c.err = "IntegrityError"
                          THEN Result("bulk_create", "UserAlreadyExistsError", None)
                          ELSE Result("bulk_create", c.err, None)
    /\ UNCHANGED <<pc, arg>>

\* ----------------------------------------------------------------- updates
\* The tail shared by the update operations: _persist, refresh, to_domain.
\* o is the instance with the assignments of the call.
PersistAndReturn(op, s, id, o) ==
    LET c == _persist(s, [imap[s] EXCEPT ![id] = o], <<>>, {})
    IN /\ rows' = c.rows
       /\ imap' = [imap EXCEPT ![s] = EmptyMap]
       /\ last' = IF c.err # "" THEN Result(op, c.err, id)
                  ELSE IF ~c.rows[id].present
                  THEN Result(op, "InvalidRequestError", id)
                  ELSE Result(op, "user", id)

\* The call raised before _persist: the assignments made so far stay.
RaiseWith(op, s, id, o, err) ==
    /\ last' = Result(op, err, id)
    /\ imap' = [imap EXCEPT ![s] = Keep([imap[s] EXCEPT ![id] = o])]
    /\ DirtyCount(imap') <= MaxDirty
    /\ UNCHANGED rows

update(s, user) ==
    /\ pc[s] = "idle"
    /\ IF user.user_id = None
       THEN /\ last' = Result("update", "ValueError", None)
            /\ UNCHANGED <<rows, imap>>
       ELSE LET id == user.user_id
                o == session_get(s, id)
                o1 == [o EXCEPT !.username = user.user_name, !.email = user.user_email]
                st == _ensure_status(user.user_status)
            IN IF ~o.present
               THEN /\ last' = Result("update", "ValueError", id)
                    /\ UNCHANGED <<rows, imap>>
               ELSE IF st = ""
               THEN RaiseWith("update", s, id, o1, "ValueError")
               ELSE PersistAndReturn("update", s, id, [o1 EXCEPT !.status = st])
    /\ UNCHANGED <<pc, arg>>

\* **kwargs of update_partial: the keys present (has) and their values.
Fields == {"username", "email", "status"}

NoStatus == [enum |-> TRUE, v |-> ""]

Kwargs ==
    {[has |-> h,
      username |-> IF "username" \in h THEN u ELSE "",
      email |-> IF "email" \in h THEN e ELSE "",
      status |-> IF "status" \in h THEN st ELSE NoStatus] :
        h \in SUBSET Fields, u \in Usernames, e \in Emails, st \in {StrInactive, StrBogus}}

update_partial(s, id, kwargs) ==
    /\ pc[s] = "idle"
    /\ LET o == session_get(s, id)
           o1 == IF "username" \in kwargs.has
                 THEN [o EXCEPT !.username = kwargs.username] ELSE o
           o2 == IF "email" \in kwargs.has
                 THEN [o1 EXCEPT !.email = kwargs.email] ELSE o1
           st == _ensure_status(kwargs.status)
       IN IF ~o.present
          THEN /\ last' = Result("update_partial", "None", id)
               /\ UNCHANGED <<rows, imap>>
          ELSE IF "status" \in kwargs.has /\ st = ""
          THEN RaiseWith("update_partial", s, id, o2, "ValueError")
          ELSE PersistAndReturn("update_partial", s, id,
                                IF "status" \in kwargs.has
                                THEN [o2 EXCEPT !.status = st] ELSE o2)
    /\ UNCHANGED <<pc, arg>>

\* update_status, called by name op (soft_delete delegates to it).
UpdateStatus(op, s, id, status) ==
    /\ pc[s] = "idle"
    /\ LET o == session_get(s, id)
           st == _ensure_status(status)
       IN IF ~o.present
          THEN /\ last' = Result(op, "None", id)
               /\ UNCHANGED <<rows, imap>>
          ELSE IF st = ""
          THEN RaiseWith(op, s, id, o, "ValueError")
          ELSE PersistAndReturn(op, s, id, [o EXCEPT !.status = st])
    /\ UNCHANGED <<pc, arg>>

update_status(s, id, status) == UpdateStatus("update_status", s, id, status)

soft_delete(s, id) == UpdateStatus("soft_delete", s, id, INACTIVE)

\* ------------------------------------------------------------------ delete
\* delete_by_id, lines 200-202: session.delete, _persist, return True.
DeleteTail(s, id) ==
    LET c == _persist(s, imap[s], <<>>, {id})
    IN /\ rows' = c.rows
       /\ imap' = [imap EXCEPT ![s] = EmptyMap]
       /\ last' = IF c.err = ""
                  THEN [Result("delete_by_id", "True", id)
                           EXCEPT !.username = rows[id].username,
                                  !.email = rows[id].email]
                  ELSE Result("delete_by_id", c.err, id)

\* delete_by_id as one step.
delete_by_id(s, id) ==
    /\ pc[s] = "idle"
    /\ IF ~session_get(s, id).present
       THEN /\ last' = Result("delete_by_id", "False", id)
            /\ UNCHANGED <<rows, imap>>
       ELSE DeleteTail(s, id)
    /\ UNCHANGED <<pc, arg>>

\* delete_by_id in two steps: lines 196-198 (the lookup), then lines 200-202.
delete_load(s, id) ==
    /\ pc[s] = "idle"
    /\ IF ~session_get(s, id).present
       THEN /\ last' = Result("delete_by_id", "False", id)
            /\ UNCHANGED <<pc, arg>>
       ELSE /\ pc' = [pc EXCEPT ![s] = "delete"]
            /\ arg' = [arg EXCEPT ![s] = [NoModel EXCEPT !.id = id]]
            /\ UNCHANGED last
    /\ UNCHANGED <<rows, imap>>

delete_commit(s) ==
    /\ pc[s] = "delete"
    /\ DeleteTail(s, arg[s].id)
    /\ pc' = [pc EXCEPT ![s] = "idle"]
    /\ arg' = [arg EXCEPT ![s] = NoModel]

\* The lists of identifiers given to bulk_delete.
IdLists == UNION {[1..n -> Ids] : n \in 0..MaxBatch}

\* bulk_delete, lines 220-230: nothing for an empty list; else one DELETE ...
\* WHERE id IN (ids) run in the transaction without touching the instances of
\* the session (synchronize_session=False), then _persist, which flushes what
\* the session holds; the count of the DELETE is returned.
bulk_delete(s, ids) ==
    /\ pc[s] = "idle"
    /\ IF Len(ids) = 0
       THEN /\ last' = [Result("bulk_delete", "count", None) EXCEPT !.count = 0]
            /\ UNCHANGED <<rows, imap>>
       ELSE LET hit == {i \in Ids : rows[i].present /\ \E k \in 1..Len(ids) : ids[k] = i}
                deleted == Cardinality(hit)
                c == commit(imap[s], [i \in Ids |-> IF i \in hit THEN NoRow ELSE rows[i]],
                            <<>>, {})
            IN /\ rows' = IF c.err = "" THEN c.rows ELSE rows
               /\ imap' = [imap EXCEPT ![s] = EmptyMap]
               /\ last' = IF c.err = ""
                          THEN [Result("bulk_delete", "count", None) EXCEPT !.count = deleted]
                          ELSE Result("bulk_delete", c.err, None)
    /\ UNCHANGED <<pc, arg>>

\* delete_all, lines 232-235: one DELETE of every row, run in the transaction
\* without touching the instances of the session, then _persist; the count of
\* the DELETE is returned.
delete_all(s) ==
    /\ pc[s] = "idle"
    /\ LET deleted == Cardinality({i \in Ids : rows[i].present})
           c == commit(imap[s], [i \in Ids |-> NoRow], <<>>, {})
       IN /\ rows' = IF c.err = "" THEN c.rows ELSE rows
          /\ imap' = [imap EXCEPT ![s] = EmptyMap]
          /\ last' = IF c.err = ""
                     THEN [Result("delete_all", "count", None) EXCEPT !.count = deleted]
                     ELSE Result("delete_all", c.err, None)
    /\ UNCHANGED <<pc, arg>>

\* ------------------------------------------------------------------- reads
\* A SELECT of UserModel in session s: the rows of the table that match, in
\* primary key order; each comes back as the instance of the identity map
\* when the session holds one (its attributes are not overwritten), and
\* nothing is flushed before the query (autoflush=False).
RECURSIVE Select(_, _, _)
Select(s, match, i) ==
    IF i > MaxId THEN <<>>
    ELSE IF rows[i].present /\ match[i]
    THEN <<to_domain(i, session_get(s, i))>> \o Select(s, match, i + 1)
    ELSE Select(s, match, i + 1)

\* limit and offset are optional.
NoLimit == -1
Limits == {NoLimit} \cup (0..MaxId)

\* OFFSET then LIMIT on the result of a query.
Page(q, limit, offset) ==
    LET from == IF offset = NoLimit THEN 0 ELSE offset
        rest == SubSeq(q, from + 1, Len(q))
    IN IF limit = NoLimit \/ limit >= Len(rest) THEN rest ELSE SubSeq(rest, 1, limit)

\* scalar_one in place of scalar_one_or_none: no row is NoResultFound.
One(op, q) ==
    IF Len(q) = 0 THEN Result(op, "NoResultFound", None)
    ELSE IF Len(q) > 1 THEN Result(op, "MultipleResultsFound", None)
    ELSE [Result(op, "user", q[1].user_id) EXCEPT !.users = q]

\* scalar_one_or_none and to_domain: the user, None, or MultipleResultsFound.
OneOrNone(op, q) ==
    IF Len(q) = 0 THEN Result(op, "None", None)
    ELSE IF Len(q) > 1 THEN Result(op, "MultipleResultsFound", None)
    ELSE [Result(op, "user", q[1].user_id) EXCEPT !.users = q]

\* A read: the outcome is recorded, nothing else changes.
Returns(s, l) ==
    /\ pc[s] = "idle"
    /\ last' = l
    /\ UNCHANGED <<rows, imap, pc, arg>>

FindById(s, id) ==
    Returns(s, IF find_by_id(s, id) = NoUser THEN Result("find_by_id", "None", id)
               ELSE [Result("find_by_id", "user", id) EXCEPT !.users = <<find_by_id(s, id)>>])

find_by_username(s, username) ==
    Returns(s, OneOrNone("find_by_username",
                         Select(s, [i \in Ids |-> rows[i].username = username], 1)))

find_by_email(s, email) ==
    Returns(s, OneOrNone("find_by_email",
                         Select(s, [i \in Ids |-> rows[i].email = email], 1)))

find_all(s, limit, offset) ==
    Returns(s, [Result("find_all", "users", None) EXCEPT
                  !.users = Page(Select(s, [i \in Ids |-> TRUE], 1), limit, offset)])

find_by_status(s, status, limit) ==
    LET st == _ensure_status(status)
    IN Returns(s, IF st = "" THEN Result("find_by_status", "ValueError", None)
                  ELSE [Result("find_by_status", "users", None) EXCEPT
                          !.users = Page(Select(s, [i \in Ids |-> rows[i].status = st], 1),
                                         limit, NoLimit)])

count_total(s) ==
    Returns(s, [Result("count_total", "count", None) EXCEPT
                  !.count = Cardinality({i \in Ids : rows[i].present})])

ExistsByUsername(s, username) ==
    Returns(s, Result("exists_by_username",
                      IF exists_by_username(username) THEN "True" ELSE "False", None))

ExistsByEmail(s, email) ==
    Returns(s, Result("exists_by_email",
                      IF exists_by_email(email) THEN "True" ELSE "False", None))

\* ----------------------------------------------------------- session scope
\* session_scope around a caller's body: commit when the body returned,
\* rollback when it raised (or when that commit fails), then close.
session_scope(s, raised) ==
    /\ pc[s] = "idle"
    /\ rows' = IF raised THEN rows ELSE commit(imap[s], rows, <<>>, {}).rows
    /\ imap' = [imap EXCEPT ![s] = EmptyMap]
    /\ UNCHANGED <<pc, arg, last>>

\* The calls of one caller after the other: a session has one user at a time,
\* who may keep using it after a call raised; session_scope ends it and the
\* next caller starts with a new one.
Callers == {1}

Next ==
    \/ \E s \in Callers, user \in Users : create(s, user) /\ UNCHANGED req
    \/ \E s \in Callers, users \in Batches : bulk_create(s, users) /\ UNCHANGED req
    \/ \E s \in Callers, user \in Users : update(s, user) /\ UNCHANGED req
    \/ \E s \in Callers, id \in Ids, kwargs \in Kwargs : update_partial(s, id, kwargs) /\ UNCHANGED req
    \/ \E s \in Callers, id \in Ids, status \in StatusArgs : update_status(s, id, status) /\ UNCHANGED req
    \/ \E s \in Callers, id \in Ids : soft_delete(s, id) /\ UNCHANGED req
    \/ \E s \in Callers, id \in Ids : delete_by_id(s, id) /\ UNCHANGED req
    \/ \E s \in Callers, ids \in IdLists : bulk_delete(s, ids) /\ UNCHANGED req
    \/ \E s \in Callers : delete_all(s) /\ UNCHANGED req
    \/ \E s \in Callers, raised \in BOOLEAN : session_scope(s, raised) /\ UNCHANGED req

Spec == Init /\ [][Next]_vars

\* The users of the interleaved creates: new users, as the callers pass them.
RaceUsers == {u \in Users : u.user_id = None /\ u.user_status = ACTIVE}

\* create and delete_by_id of two sessions, interleaved at their commit.
NextRace ==
    \/ \E s \in Sessions, user \in RaceUsers : create_check(s, user) /\ UNCHANGED req
    \/ \E s \in Sessions : create_commit(s) /\ UNCHANGED req
    \/ \E s \in Sessions, id \in Ids : delete_load(s, id) /\ UNCHANGED req
    \/ \E s \in Sessions : delete_commit(s) /\ UNCHANGED req

SpecRace == Init /\ [][NextRace]_vars

\* The reads of one caller, among calls that fill, change and empty the table
\* and the session.
NextRead ==
    \/ \E s \in Callers, user \in RaceUsers : create(s, user) /\ UNCHANGED req
    \/ \E s \in Callers, id \in Ids, kwargs \in Kwargs : update_partial(s, id, kwargs) /\ UNCHANGED req
    \/ \E s \in Callers, id \in Ids : delete_by_id(s, id) /\ UNCHANGED req
    \/ \E s \in Callers, id \in Ids : FindById(s, id) /\ UNCHANGED req
    \/ \E s \in Callers, username \in Usernames : find_by_username(s, username) /\ UNCHANGED req
    \/ \E s \in Callers, email \in Emails : find_by_email(s, email) /\ UNCHANGED req
    \/ \E s \in Callers, limit \in Limits, offset \in Limits : find_all(s, limit, offset) /\ UNCHANGED req
    \/ \E s \in Callers, status \in StatusArgs, limit \in Limits :
          find_by_status(s, status, limit) /\ UNCHANGED req
    \/ \E s \in Callers : count_total(s) /\ UNCHANGED req
    \/ \E s \in Callers, username \in Usernames : ExistsByUsername(s, username) /\ UNCHANGED req
    \/ \E s \in Callers, email \in Emails : ExistsByEmail(s, email) /\ UNCHANGED req

SpecRead == Init /\ [][NextRead]_vars

\* ------------------------------------------------------------ API requests
\* The sessions no request holds.
FreeSessions == Sessions \ {req[r].session : r \in {q \in Requests : req[q].pc # "none"}}

\* One session object used by whoever asks.
SharedSession == CHOOSE s \in Sessions : \A t \in Sessions : s <= t

\* SessionLocal(): a new session object (the lowest free slot stands for it).
NewSession == CHOOSE s \in FreeSessions : \A t \in FreeSessions : s <= t

\* get_session up to its yield: session_scope creates the session of the
\* request (Depends(get_session), once per request).
get_session(r) ==
    /\ req[r].pc = "none"
    /\ FreeSessions # {}
    /\ req' = [req EXCEPT ![r] = [pc |-> "open", session |-> NewSession, resp |-> ""]]
    /\ UNCHANGED <<rows, imap, pc, arg, last>>

\* The handler of request r ends with the response code: it returned, or it
\* raised (an HTTPException, or an exception no handler caught: 500).
Respond(r, code) ==
    req' = [req EXCEPT ![r].resp = code,
                       ![r].pc = IF code \in {"200", "201", "204"}
                                 THEN "returned" ELSE "raised"]

\* The handler made no repository call that changes anything.
NoCall == UNCHANGED <<rows, imap, pc, arg, last>>

\* The status strings a request body carries.
StatusStrings == {st \in StatusArgs : ~st.enum}

\* POST /users: UserDTO.to_domain turns the status string into a member or
\* raises ValueError (400); UserAlreadyExistsError is 409.
api_create_user(r, username, email, status) ==
    /\ req[r].pc = "open"
    /\ IF ~IsStatus(status.v)
       THEN NoCall /\ Respond(r, "400")
       ELSE /\ create(req[r].session,
                      [user_id |-> None, user_name |-> username, user_email |-> email,
                       user_status |-> [enum |-> TRUE, v |-> status.v]])
            /\ Respond(r, IF last'.out = "user" THEN "201"
                          ELSE IF last'.out = "UserAlreadyExistsError" THEN "409"
                          ELSE IF last'.out = "ValueError" THEN "400"
                          ELSE "500")

\* GET /users/{user_id}.
api_get_user(r, id) ==
    /\ req[r].pc = "open"
    /\ FindById(req[r].session, id)
    /\ Respond(r, IF last'.out = "user" THEN "200"
                  ELSE IF last'.out = "None" THEN "404"
                  ELSE "500")

\* GET /users/by-username/{username}.
api_get_user_by_username(r, username) ==
    /\ req[r].pc = "open"
    /\ find_by_username(req[r].session, username)
    /\ Respond(r, IF last'.out = "user" THEN "200"
                  ELSE IF last'.out = "None" THEN "404"
                  ELSE "500")

\* The bodies of PATCH /users/{user_id}: any of username and status.
PatchBodies == {k \in Kwargs : "email" \notin k.has}

\* PATCH /users/{user_id}: the fields that are not None go to
\* update_partial as they are; nothing catches what it raises.
api_update_user_partial(r, id, kwargs) ==
    /\ req[r].pc = "open"
    /\ IF kwargs.has = {}
       THEN NoCall /\ Respond(r, "400")
       ELSE /\ update_partial(req[r].session, id, kwargs)
            /\ Respond(r, IF last'.out = "user" THEN "200"
                          ELSE IF last'.out = "None" THEN "404"
                          ELSE "500")

\* PATCH /users/{user_id}/status: UserStatus(status) first (ValueError is
\* 400), then the service: find_by_id, and update_status with the member.
api_update_status(r, id, status) ==
    /\ req[r].pc = "open"
    /\ IF ~IsStatus(status.v)
       THEN NoCall /\ Respond(r, "400")
       ELSE IF find_by_id(req[r].session, id) = NoUser
       THEN NoCall /\ Respond(r, "404")
       ELSE /\ update_status(req[r].session, id, [enum |-> TRUE, v |-> status.v])
            /\ Respond(r, IF last'.out = "user" THEN "200"
                          ELSE IF last'.out = "None" THEN "404"
                          ELSE IF last'.out = "ValueError" THEN "400"
                          ELSE "500")

\* DELETE /users/{user_id}.
api_delete_user(r, id) ==
    /\ req[r].pc = "open"
    /\ delete_by_id(req[r].session, id)
    /\ Respond(r, IF last'.out = "True" THEN "204"
                  ELSE IF last'.out = "False" THEN "404"
                  ELSE "500")

\* DELETE /users/{user_id}/soft.
api_soft_delete_user(r, id) ==
    /\ req[r].pc = "open"
    /\ soft_delete(req[r].session, id)
    /\ Respond(r, IF last'.out = "user" THEN "200"
                  ELSE IF last'.out = "None" THEN "404"
                  ELSE "500")

\* get_session after its yield, at the end of the request: session_scope
\* commits when the handler returned, rolls back when it raised, and closes.
get_session_exit(r) ==
    /\ req[r].pc \in {"returned", "raised"}
    /\ session_scope(req[r].session, req[r].pc = "raised")
    /\ req' = [req EXCEPT ![r] = NoReq]

\* Requests, each on the session get_session gave it; the handler's
\* repository call is one step.
NextApi ==
    \/ \E r \in Requests : get_session(r)
    \/ \E r \in Requests, username \in Usernames, email \in Emails,
          status \in StatusStrings : api_create_user(r, username, email, status)
    \/ \E r \in Requests, id \in Ids : api_get_user(r, id)
    \/ \E r \in Requests, username \in Usernames : api_get_user_by_username(r, username)
    \/ \E r \in Requests, id \in Ids, kwargs \in PatchBodies :
          api_update_user_partial(r, id, kwargs)
    \/ \E r \in Requests, id \in Ids, status \in StatusStrings :
          api_update_status(r, id, status)
    \/ \E r \in Requests, id \in Ids : api_delete_user(r, id)
    \/ \E r \in Requests, id \in Ids : api_soft_delete_user(r, id)
    \/ \E r \in Requests : get_session_exit(r)

SpecApi == Init /\ [][NextApi]_vars

\* ------------------------------------------------------------------ claims
Held(r, username, email) ==
    \E i \in Ids : r[i].present /\ (r[i].username = username \/ r[i].email = email)

Holders(r, username, email) ==
    {i \in Ids : r[i].present /\ (r[i].username = username \/ r[i].email = email)}

\* The step ends a create call of session s for the keys (username, email).
EndsCreate(s, username, email) ==
    \/ /\ pc[s] = "create" /\ arg[s].username = username /\ arg[s].email = email
       /\ create_commit(s)
    \/ /\ pc[s] = "idle" /\ pc'[s] = "idle"
       /\ \E user \in RaceUsers :
            /\ user.user_name = username /\ user.user_email = email
            /\ create_check(s, user)

\* C1: of two create calls with the same username or the same email, made one
\* after the other or interleaved so that both pass the pre-check before
\* either commits, exactly one succeeds and the other fails with
\* UserAlreadyExistsError, and one row holds the shared key afterwards: the
\* call that commits while no row holds its keys succeeds, and the call that
\* ends after a create with one of its keys succeeded fails with
\* UserAlreadyExistsError and stores nothing.
C1_OneCreateSucceeds ==
    [][\A s \in Sessions :
         /\ (create_commit(s) /\ ~Held(rows, arg[s].username, arg[s].email)
               /\ (arg[s].id = None \/ ~rows[arg[s].id].present))
              => /\ last'.out = "user"
                 /\ Cardinality(Holders(rows', arg[s].username, arg[s].email)) = 1
         /\ \A u \in Usernames, e \in Emails :
              (/\ last.op = "create" /\ last.out = "user"
               /\ (last.username = u \/ last.email = e)
               /\ EndsCreate(s, u, e))
              => /\ last'.out = "UserAlreadyExistsError"
                 /\ rows' = rows
                 /\ Holders(rows', last.username, last.email) = {last.id}
      ]_vars

\* Both calls passed the pre-check, one committed, and the commit of the other
\* was refused by the unique constraint.
C1_Witness ==
    /\ last.op = "create" /\ last.out = "UserAlreadyExistsError" /\ last.msg = "integrity"
    /\ Cardinality(Holders(rows, last.username, last.email)) = 1

\* C2: in every committed storage state, whatever calls of create,
\* bulk_create, update, update_partial, update_status, soft_delete and
\* delete_by_id (successful or failed) led to it, no two stored rows have the
\* same username and no two stored rows have the same email.
C2_UniqueUsernameEmail ==
    \A i, j \in Ids :
        (/\ rows[i].present /\ rows[j].present
         /\ (rows[i].username = rows[j].username \/ rows[i].email = rows[j].email))
            => i = j

\* An update that set a username or email held by another row was refused at
\* commit.
C2_Witness ==
    /\ last.op \in {"update", "update_partial"} /\ last.out = "IntegrityError"
    /\ \E i, j \in Ids : i # j /\ rows[i].present /\ rows[j].present

InvalidStatus(status) == status # NoStatus /\ ~status.enum /\ ~IsStatus(status.v)

\* C4: update_partial for a stored id with a status that is no member of
\* UserStatus fails the whole call: it raises, and no field supplied in the
\* call is stored; the stored rows equal those before the call.
C4_InvalidStatusFailsCall ==
    [][last'.op = "update_partial" =>
         \A s \in Callers, id \in Ids \cap {last'.id}, kwargs \in Kwargs :
            (/\ rows[id].present /\ "status" \in kwargs.has
             /\ InvalidStatus(kwargs.status)
             /\ update_partial(s, id, kwargs))
               => last'.out = "ValueError" /\ rows' = rows
      ]_vars

\* Such a call that also supplied a username other than the stored one.
C4_Witness ==
    /\ last.op = "update_partial" /\ last.out = "ValueError"
    /\ rows[last.id].present
    /\ imap[1][last.id].present
    /\ imap[1][last.id].username # rows[last.id].username

\* C7: when create succeeds, the identifier of the returned user is one no
\* stored row had, and find_by_id with it right afterwards returns a user with
\* the username, email and status of the user passed to create.
C7_CreateThenFind ==
    [][(last'.op = "create" /\ last'.out = "user") =>
         \A s \in Callers, user \in Users :
            (/\ user.user_name = last'.username /\ user.user_email = last'.email
             /\ create(s, user))
               => \E id \in Ids :
                    /\ id = last'.id
                    /\ ~rows[id].present
                    /\ (find_by_id(s, id))' =
                          [user_id |-> id, user_name |-> user.user_name,
                           user_email |-> user.user_email,
                           user_status |-> user.user_status.v]
      ]_vars

\* A second user, created inactive, is found with that status.
C7_Witness ==
    /\ last.op = "create" /\ last.out = "user"
    /\ \A i \in Ids : rows[i].present
    /\ find_by_id(1, last.id).user_status = "inactive"
    /\ find_by_id(1, last.id).user_name = last.username

\* A user as create is given it: no identifier yet, the status a member.
NewUser(user) == user.user_id = None /\ user.user_status.enum

\* C9: a soft-deleted user keeps occupying its username and email: after a
\* successful soft_delete the row is stored with status inactive, every create
\* with the username or the email of a stored inactive row fails with
\* UserAlreadyExistsError and stores nothing, and right after delete_by_id
\* returned True a create with the username and email of the deleted row
\* succeeds.
C9_SoftDeletedKeepsKeys ==
    [][/\ (last'.op = "soft_delete" /\ last'.out = "user") =>
            \A s \in Callers, id \in Ids \cap {last'.id} :
               soft_delete(s, id)
                  => rows'[id].present /\ rows'[id].status = "inactive"
       /\ last'.op = "create" =>
            \A s \in Callers, user \in Users :
               (/\ user.user_name = last'.username /\ user.user_email = last'.email
                /\ create(s, user))
                  => /\ (\E i \in Ids :
                            /\ rows[i].present /\ rows[i].status = "inactive"
                            /\ \/ rows[i].username = user.user_name
                               \/ rows[i].email = user.user_email)
                        => last'.out = "UserAlreadyExistsError" /\ rows' = rows
                     /\ (/\ last.op = "delete_by_id" /\ last.out = "True"
                         /\ user.user_name = last.username
                         /\ user.user_email = last.email
                         /\ NewUser(user))
                        => /\ last'.out = "user"
                           /\ rows'[last'.id] =
                                Row(user.user_name, user.user_email, user.user_status.v)
      ]_vars

\* A create with the username, and another email, of a stored inactive row
\* was refused.
C9_Witness ==
    /\ last.op = "create" /\ last.out = "UserAlreadyExistsError"
    /\ \E i \in Ids : /\ rows[i].present /\ rows[i].status = "inactive"
                      /\ rows[i].username = last.username
                      /\ rows[i].email # last.email

\* The batch has a username or email that a stored row or another user of the
\* batch has.
Collides(users) ==
    \/ \E k \in 1..Len(users) : Held(rows, users[k].user_name, users[k].user_email)
    \/ \E k, l \in 1..Len(users) :
         /\ k # l
         /\ \/ users[k].user_name = users[l].user_name
            \/ users[k].user_email = users[l].user_email

\* C3: bulk_create is all-or-nothing: when a user of the batch has a username
\* or email that a stored row or another user of the batch has, the call fails
\* with UserAlreadyExistsError and the stored rows are those before the call;
\* otherwise every user of the batch is persisted.
C3_BulkCreateAllOrNothing ==
    [][\A s \in Callers, users \in Batches :
         (/\ \A k \in 1..Len(users) : NewUser(users[k])
          /\ last'.op = "bulk_create"
          /\ bulk_create(s, users))
            => IF Collides(users)
               THEN last'.out = "UserAlreadyExistsError" /\ rows' = rows
               ELSE /\ last'.out = "users"
                    /\ \A k \in 1..Len(users) :
                         \E i \in Ids :
                            /\ ~rows[i].present
                            /\ rows'[i] = Row(users[k].user_name, users[k].user_email,
                                              users[k].user_status.v)
      ]_vars

\* C5: update of a user whose identifier matches no stored row fails with
\* UserNotFoundError, a kind other than the ValueError of an invalid status or
\* of a missing identifier, and leaves the stored rows unchanged.
C5_UpdateMissingIsNotFound ==
    [][\A s \in Callers, user \in Users :
         (/\ user.user_id # None /\ ~rows[user.user_id].present
          /\ last'.op = "update"
          /\ update(s, user))
            => last'.out = "UserNotFoundError" /\ rows' = rows
      ]_vars

\* C6: a successful update_partial overwrites exactly the fields of row id
\* that kwargs holds: the other fields of the row and every other row keep
\* their values; for an id that matches no row it returns None and changes
\* nothing.
C6_UpdatePartialFrame ==
    [][\A s \in Callers, id \in Ids, kwargs \in Kwargs :
         (last'.op = "update_partial" /\ update_partial(s, id, kwargs))
            => /\ last'.out = "user" =>
                    rows' = [rows EXCEPT ![id] =
                        [present |-> TRUE,
                         username |-> IF "username" \in kwargs.has
                                      THEN kwargs.username ELSE rows[id].username,
                         email |-> IF "email" \in kwargs.has
                                   THEN kwargs.email ELSE rows[id].email,
                         status |-> IF "status" \in kwargs.has
                                    THEN kwargs.status.v ELSE rows[id].status]]
               /\ ~rows[id].present => last'.out = "None" /\ rows' = rows
      ]_vars

\* C8: soft_delete(id) is update_status(id, INACTIVE): for a stored id the row
\* stays, its status becomes inactive, its username and email and the other
\* rows are unchanged and find_by_id returns it; for an id that matches no
\* row it returns None and changes nothing.
C8_SoftDeleteIsStatusUpdate ==
    [][\A s \in Callers, id \in Ids :
         (last'.op = "soft_delete" /\ soft_delete(s, id))
            => IF rows[id].present
               THEN /\ last'.out = "user"
                    /\ rows' = [rows EXCEPT ![id].status = "inactive"]
                    /\ (find_by_id(s, id))' =
                          [user_id |-> id, user_name |-> rows[id].username,
                           user_email |-> rows[id].email, user_status |-> "inactive"]
               ELSE last'.out = "None" /\ rows' = rows
      ]_vars

\* C10: delete_by_id(id) returns True exactly when a row with that id was
\* stored, and then removes that row and no other; otherwise it returns False
\* and the stored rows are unchanged.
C10_DeleteByIdExact ==
    [][\A s \in Callers, id \in Ids :
         (last'.op = "delete_by_id" /\ delete_by_id(s, id))
            => IF rows[id].present
               THEN last'.out = "True" /\ rows' = [rows EXCEPT ![id] = NoRow]
               ELSE last'.out = "False" /\ rows' = rows
      ]_vars

\* The step is a call that sets the status of row id: update_status,
\* soft_delete, update, or update_partial with a status.
SetsStatus(s, id) ==
    /\ last'.id = id
    /\ \/ last'.op = "update_status" /\ \E status \in StatusArgs : update_status(s, id, status)
       \/ last'.op = "soft_delete" /\ soft_delete(s, id)
       \/ last'.op = "update" /\ \E user \in Users : user.user_id = id /\ update(s, user)
       \/ /\ last'.op = "update_partial"
          /\ \E kwargs \in Kwargs : "status" \in kwargs.has /\ update_partial(s, id, kwargs)

\* The step is a create or bulk_create call.
Creates(s) ==
    \/ /\ last'.op = "create"
       /\ \E user \in Users :
            /\ user.user_name = last'.username /\ user.user_email = last'.email
            /\ create(s, user)
    \/ last'.op = "bulk_create" /\ \E users \in Batches : bulk_create(s, users)

\* C11: in any sequence of calls, right after update_status(id, status)
\* succeeded find_by_id(id) returns that status, and the status find_by_id(id)
\* returns changes only in a step that is a status-setting call on id; right
\* after delete_by_id(id) returned True find_by_id(id) returns None, and it
\* goes from None to a user only in a step of create or bulk_create that
\* stored a row under id.
C11_StatusAndAbsencePersist ==
    [][/\ (last'.op = "update_status" /\ last'.out = "user") =>
            \A s \in Callers, id \in Ids \cap {last'.id}, status \in StatusArgs :
               update_status(s, id, status)
                  => (find_by_id(s, id))'.user_status = _ensure_status(status)
       /\ (last'.op = "delete_by_id" /\ last'.out = "True") =>
            \A s \in Callers, id \in Ids \cap {last'.id} :
               delete_by_id(s, id) => (find_by_id(s, id))' = NoUser
       /\ \A s \in Callers, id \in Ids :
            (rows'[id] # rows[id] \/ imap'[s][id] # imap[s][id]) =>
               LET before == find_by_id(s, id)
                   after == (find_by_id(s, id))'
               IN /\ (/\ before # NoUser /\ after # NoUser
                       /\ before.user_status # after.user_status)
                         => SetsStatus(s, id)
                  /\ (before = NoUser /\ after # NoUser)
                         => Creates(s) /\ ~rows[id].present /\ rows'[id].present
      ]_vars

\* update_status stored "inactive" and find_by_id returns it.
C11_Witness ==
    /\ last.op = "update_status" /\ last.out = "user"
    /\ last.id # None
    /\ find_by_id(1, last.id) # NoUser
    /\ find_by_id(1, last.id).user_status = "inactive"

\* C12: bulk_delete(ids) removes exactly the stored rows whose identifier is
\* in ids, raises nothing and returns how many rows it removed, identifiers
\* without a row and repeated identifiers counting for nothing; with an empty
\* list it returns 0 and neither deletes nor commits.
C12_BulkDeleteExact ==
    [][last'.op = "bulk_delete" =>
         \A s \in Callers, ids \in IdLists :
            bulk_delete(s, ids)
               => LET hit == {i \in Ids : rows[i].present
                                          /\ \E k \in 1..Len(ids) : ids[k] = i}
                  IN /\ last'.out = "count"
                     /\ last'.count = Cardinality(hit)
                     /\ rows' = [i \in Ids |-> IF i \in hit THEN NoRow ELSE rows[i]]
                     /\ Len(ids) = 0 => imap' = imap
      ]_vars

\* C16: in every committed state of the table the status of every stored row
\* is one of active, inactive, pending, banned, whatever calls of create,
\* bulk_create, update, update_partial, update_status and soft_delete, with
\* valid or invalid status arguments, came before; so to_domain of a stored
\* row never raises.
C16_StoredStatusIsMember ==
    \A i \in Ids :
       rows[i].present
          => /\ rows[i].status \in UserStatus
             /\ to_domain(i, rows[i]).user_status # "ValueError"

\* A call was refused for its status while a row is stored.
C16_Witness ==
    /\ last.out \in {"ValueError", "AttributeError"}
    /\ last.op \in {"create", "update_partial"}
    /\ \E i \in Ids : rows[i].present /\ rows[i].status = "inactive"

\* The call recorded in l raised what its commit raised.
CommitFailed(l) ==
    \/ l.out \in {"IntegrityError", "StaleDataError"}
    \/ l.op = "create" /\ l.out = "UserAlreadyExistsError" /\ l.msg = "integrity"
    \/ l.op = "bulk_create" /\ l.out = "UserAlreadyExistsError"

\* Another stored row than id has the username or the email of the call.
TakenByOther(id, setsName, username, setsEmail, email) ==
    \E j \in Ids \ {id} :
       /\ rows[j].present
       /\ \/ setsName /\ rows[j].username = username
          \/ setsEmail /\ rows[j].email = email

\* C17: when the commit of a mutating call fails, the transaction is rolled
\* back (the session keeps nothing pending), the call raises the error of the
\* commit, and the stored rows and all their fields are those before the
\* call, the other fields given in the same call included; so for update and
\* update_partial, on a session with nothing pending, that set a username or
\* an email another stored row has: they raise IntegrityError.
C17_FailedCommitRollsBack ==
    [][/\ CommitFailed(last') =>
            rows' = rows /\ \A s \in Callers : imap'[s] = EmptyMap
       /\ last'.op = "update_partial" =>
            \A s \in Callers, id \in Ids \cap {last'.id}, kwargs \in Kwargs :
               (/\ rows[id].present /\ imap[s] = EmptyMap
                /\ "status" \in kwargs.has => ~InvalidStatus(kwargs.status)
                /\ TakenByOther(id, "username" \in kwargs.has, kwargs.username,
                                "email" \in kwargs.has, kwargs.email)
                /\ update_partial(s, id, kwargs))
                  => last'.out = "IntegrityError" /\ rows' = rows
       /\ last'.op = "update" =>
            \A s \in Callers, user \in Users :
               (/\ user.user_id = last'.id /\ user.user_id # None
                /\ rows[user.user_id].present /\ imap[s] = EmptyMap
                /\ ~InvalidStatus(user.user_status)
                /\ TakenByOther(user.user_id, TRUE, user.user_name, TRUE, user.user_email)
                /\ update(s, user))
                  => last'.out = "IntegrityError" /\ rows' = rows
      ]_vars

\* update_partial raised the IntegrityError of its commit.
C17_Witness ==
    /\ last.op = "update_partial" /\ last.out = "IntegrityError"
    /\ \E i \in Ids : i # last.id /\ rows[i].present

\* The user to_domain makes of the row stored under id, None without a row.
Committed(id) == IF rows[id].present THEN to_domain(id, rows[id]) ELSE NoUser

\* C19: after a call raised on a session, later calls on that session see
\* and commit only what successful calls did: find_by_id returns the
\* committed values of the row, and a successful update_status(id, status)
\* changes nothing but the status of row id.
C19_FailedCallLeavesNothing ==
    [][/\ \A s \in Callers, id \in Ids : find_by_id(s, id) = Committed(id)
       /\ (last'.op = "update_status" /\ last'.out = "user") =>
            \A s \in Callers, id \in Ids \cap {last'.id}, status \in StatusArgs :
               update_status(s, id, status)
                  => rows' = [rows EXCEPT ![id].status = _ensure_status(status)]
      ]_vars

\* Some row holds the username or the email of the user.
KeysHeld(user) == Held(rows, user.user_name, user.user_email)

\* C20: create raises UserAlreadyExistsError only when a stored row holds the
\* username or the email of the user passed in, also when that user carries
\* the identifier of a stored row.
C20_AlreadyExistsOnlyForKeys ==
    [][last'.op = "create" =>
         \A s \in Callers, user \in Users :
            (/\ user.user_name = last'.username /\ user.user_email = last'.email
             /\ create(s, user)
             /\ last'.out = "UserAlreadyExistsError")
               => KeysHeld(user)
      ]_vars

\* C14: the reads find_by_id, find_by_username, find_by_email, find_all,
\* find_by_status, count_total, exists_by_username and exists_by_email leave the
\* stored rows as they are, and find_by_id, find_by_username and find_by_email
\* return None, raising nothing, when no stored row has the key.
C14_ReadsChangeNothing ==
    [][/\ last'.op = "find_by_id" =>
            \A s \in Callers, id \in Ids \cap {last'.id} :
               FindById(s, id)
                  => rows' = rows /\ (~rows[id].present => last'.out = "None")
       /\ last'.op = "find_by_username" =>
            \A s \in Callers, username \in Usernames :
               find_by_username(s, username)
                  => /\ rows' = rows
                     /\ (~\E i \in Ids : rows[i].present /\ rows[i].username = username)
                          => last'.out = "None"
       /\ last'.op = "find_by_email" =>
            \A s \in Callers, email \in Emails :
               find_by_email(s, email)
                  => /\ rows' = rows
                     /\ (~\E i \in Ids : rows[i].present /\ rows[i].email = email)
                          => last'.out = "None"
       /\ last'.op \in {"find_all", "find_by_status", "count_total",
                        "exists_by_username", "exists_by_email"} =>
            \A s \in Callers :
               (\/ \E limit \in Limits, offset \in Limits : find_all(s, limit, offset)
                \/ \E status \in StatusArgs, limit \in Limits :
                      find_by_status(s, status, limit)
                \/ count_total(s)
                \/ \E username \in Usernames : ExistsByUsername(s, username)
                \/ \E email \in Emails : ExistsByEmail(s, email))
                  => rows' = rows
      ]_vars

\* find_by_username returned None for a username no row of a table that is
\* not empty has.
C14_Witness ==
    /\ last.op = "find_by_username" /\ last.out = "None"
    /\ \E i \in Ids : rows[i].present

\* The stored users from key i on, in primary key order.
RECURSIVE StoredFrom(_)
StoredFrom(i) ==
    IF i > MaxId THEN <<>>
    ELSE IF rows[i].present THEN <<to_domain(i, rows[i])>> \o StoredFrom(i + 1)
    ELSE StoredFrom(i + 1)

\* C15: find_all(limit, offset) returns the stored users in order, without
\* the first offset of them when offset is given, and then at most the first
\* limit of what is left when limit is given; with neither it returns every
\* stored user once, as many as count_total() counts.
C15_FindAllPages ==
    [][last'.op = "find_all" =>
         \A s \in Callers, limit \in Limits, offset \in Limits :
            find_all(s, limit, offset)
               => LET all == StoredFrom(1)
                      skip == IF offset = NoLimit THEN 0 ELSE offset
                      n == IF limit = NoLimit THEN Len(all) ELSE limit
                  IN /\ Len(last'.users) = IF Len(all) - skip < 0 THEN 0
                                           ELSE IF Len(all) - skip < n THEN Len(all) - skip
                                           ELSE n
                     /\ \A k \in 1..Len(last'.users) : last'.users[k] = all[skip + k]
                     /\ (limit = NoLimit /\ offset = NoLimit)
                          => Len(last'.users) = Cardinality({i \in Ids : rows[i].present})
      ]_vars

\* C13: on the endpoints that take a status string (create user, partial
\* update, status update) a status that is no member of UserStatus gives the
\* response 400 and changes no stored row, at the handler and at the end of
\* the request; a user that is not there gives 404; UserAlreadyExistsError
\* gives 409.
C13_ApiStatusCodes ==
    [][\A r \in Requests :
         /\ (req[r].pc = "open" /\ req'[r].pc # "open") =>
              /\ \A username \in Usernames, email \in Emails, status \in StatusStrings :
                    api_create_user(r, username, email, status)
                       => /\ ~IsStatus(status.v)
                               => req'[r].resp = "400" /\ rows' = rows
                          /\ (IsStatus(status.v) /\ Held(rows, username, email))
                               => req'[r].resp = "409"
              /\ \A id \in Ids, kwargs \in PatchBodies :
                    api_update_user_partial(r, id, kwargs)
                       => /\ (/\ rows[id].present /\ "status" \in kwargs.has
                               /\ InvalidStatus(kwargs.status))
                               => req'[r].resp = "400" /\ rows' = rows
                          /\ (/\ ~rows[id].present /\ kwargs.has # {}
                               /\ ~InvalidStatus(kwargs.status))
                               => req'[r].resp = "404"
              /\ \A id \in Ids, status \in StatusStrings :
                    api_update_status(r, id, status)
                       => /\ ~IsStatus(status.v)
                               => req'[r].resp = "400" /\ rows' = rows
                          /\ (IsStatus(status.v) /\ ~rows[id].present)
                               => req'[r].resp = "404"
              /\ \A id \in Ids :
                    (/\ ~rows[id].present
                     /\ \/ api_get_user(r, id)
                        \/ api_delete_user(r, id)
                        \/ api_soft_delete_user(r, id))
                       => req'[r].resp = "404"
              /\ \A username \in Usernames :
                    (/\ ~exists_by_username(username)
                     /\ api_get_user_by_username(r, username))
                       => req'[r].resp = "404"
         /\ (req[r].resp = "400" /\ get_session_exit(r)) => rows' = rows
      ]_vars

\* The sessions other requests than r hold.
HeldByOthers(r) == {req[q].session : q \in {p \in Requests : p # r /\ req[p].pc # "none"}}

\* C18: every request gets its own session, which no other request in flight
\* uses: the sessions of two requests in flight differ, get_session gives a
\* session that holds nothing, and a handler touches no session but its
\* own; and the session is closed when the request ends, after a commit when
\* the handler returned and after a rollback, which leaves the stored rows as
\* they are, when it raised.
C18_SessionPerRequest ==
    [][/\ \A r \in Requests :
            req[r].pc # "none" => req[r].session \notin HeldByOthers(r)
       /\ \A s \in FreeSessions : imap[s] = EmptyMap
       /\ \A r \in Requests :
            /\ (req[r].pc = "none" /\ req'[r].pc # "none")
                  => /\ req'[r].session \notin HeldByOthers(r)
                     /\ imap[req'[r].session] = EmptyMap
            /\ (req[r].pc = "open" /\ req'[r].pc \in {"returned", "raised"})
                  => \A s \in Sessions \ {req[r].session} : imap'[s] = imap[s]
            /\ (req[r].pc \in {"returned", "raised"} /\ req'[r].pc = "none")
                  => /\ imap'[req[r].session] = EmptyMap
                     /\ req[r].session \notin HeldByOthers(r)
                     /\ req[r].pc = "raised" => rows' = rows
                     /\ req[r].pc = "returned"
                          => rows' = commit(imap[req[r].session], rows, <<>>, {}).rows
      ]_vars

\* Two requests in flight, one of which raised after its handler had
\* assigned to an instance of its session.
C18_Witness ==
    /\ req[1].pc = "raised" /\ req[2].pc = "open"
    /\ imap[req[1].session] # EmptyMap

\* C21: of two delete_by_id calls for the same stored id that both look the
\* row up before either commits, at most one returns True: the call that
\* commits after the other has removed the row removes nothing and does not
\* return True.
C21_OneDeleteReturnsTrue ==
    [][\A s \in Sessions :
         (/\ pc[s] = "delete"
          /\ ~rows[arg[s].id].present
          /\ delete_commit(s))
            => last'.out # "True"
      ]_vars

\* What count_total() returns for the table r: the number of its rows.
Count(r) == Cardinality({i \in Ids : r[i].present})

\* The step is an update, update_partial, update_status or soft_delete call
\* about row id.
Updates(s, id) ==
    \/ last'.op = "update" /\ \E user \in Users : user.user_id = id /\ update(s, user)
    \/ last'.op = "update_partial" /\ \E kwargs \in Kwargs : update_partial(s, id, kwargs)
    \/ last'.op = "update_status" /\ \E status \in StatusArgs : update_status(s, id, status)
    \/ last'.op = "soft_delete" /\ soft_delete(s, id)

\* C22: count_total() is the number of stored rows whatever their status: a
\* successful create raises it by one, a delete_by_id that returns True (as
\* one step, or committing after its lookup) lowers it by one, bulk_delete
\* and delete_all lower it by the count they return, delete_all to 0, and
\* update, update_partial, update_status, soft_delete and every call that
\* failed leave it as it is.
C22_CountFollowsCalls ==
    [][/\ last'.op = "create" =>
            \A s \in Sessions, user \in Users :
               (/\ user.user_name = last'.username /\ user.user_email = last'.email
                /\ \/ create(s, user)
                   \/ pc[s] = "create" /\ create_commit(s))
                  => Count(rows') = Count(rows) + IF last'.out = "user" THEN 1 ELSE 0
       /\ last'.op = "delete_by_id" =>
            \A s \in Sessions :
               /\ \A id \in Ids \cap {last'.id} :
                     delete_by_id(s, id)
                        => Count(rows') = Count(rows) - IF last'.out = "True" THEN 1 ELSE 0
               /\ (pc[s] = "delete" /\ delete_commit(s))
                     => Count(rows') = Count(rows) - IF last'.out = "True" THEN 1 ELSE 0
       /\ last'.op = "bulk_delete" =>
            \A s \in Sessions, ids \in IdLists :
               bulk_delete(s, ids)
                  => Count(rows') = Count(rows)
                                      - IF last'.out = "count" THEN last'.count ELSE 0
       /\ last'.op = "delete_all" =>
            \A s \in Sessions :
               delete_all(s)
                  => IF last'.out = "count"
                     THEN Count(rows') = 0 /\ last'.count = Count(rows)
                     ELSE Count(rows') = Count(rows)
       /\ last'.op \in {"update", "update_partial", "update_status", "soft_delete"} =>
            \A s \in Sessions, id \in (Ids \cup {None}) \cap {last'.id} :
               Updates(s, id) => Count(rows') = Count(rows)
       /\ (last'.op = "bulk_create" /\ last'.out # "users") =>
            \A s \in Sessions :
               (\E users \in Batches : bulk_create(s, users)) => Count(rows') = Count(rows)
       /\ last'.op = "count_total" =>
            \A s \in Sessions :
               count_total(s) => last'.count = Count(rows) /\ rows' = rows
      ]_vars

====
